---- MODULE Spec2Model ----
(***************************************************************************)
(* eduprompt: the action layer (src/src/actions/index.ts) over the four    *)
(* tables of src/db/tables.ts.  Every `await db...` of a handler is one    *)
(* atomic step; a handler with several statements is suspended between     *)
(* them in `pending`, so that other requests interleave there.             *)
(*                                                                         *)
(* Optional values (a nullable column, an omitted input field, an absent   *)
(* session user) are sequences of length at most one: NULL is <<>>, a      *)
(* present value x is <<x>>.  Session user ids are non-empty strings.      *)
(* Opaque pass-through columns (description, tags, input, output, meta)    *)
(* and the timestamps are not stored in the modelled rows.                 *)
(***************************************************************************)
EXTENDS Bags, FiniteSets, Integers, Sequences, TLC

VARIABLES
  PromptTemplates,      \* set of rows of table PromptTemplates
  GeneratedPrompts,     \* set of rows of table GeneratedPrompts
  UserPromptFavorites,  \* set of rows of table UserPromptFavorites
  PromptJobs,           \* set of rows of table PromptJobs
  pending,              \* bag of the handlers suspended at an await
  resp                  \* the response most recently returned to a caller

vars == <<PromptTemplates, GeneratedPrompts, UserPromptFavorites, PromptJobs,
          pending, resp>>

tables == <<PromptTemplates, GeneratedPrompts, UserPromptFavorites, PromptJobs>>

\* Rows a table holds at most (and the largest id it hands out).
MaxTemplates == 2
MaxPrompts == 2
MaxFavorites == 2
MaxJobs == 1

\* Rows the database holds at most when every operation is exercised at once.
MaxDbRows == 3

Users == {"u1", "u2"}

\* A session has at most one request in flight.
Sessions == {"s1", "s2"}

NULL == <<>>
Some(x) == <<x>>

\* context.locals.user: absent, or a signed-in user.
Callers == {NULL} \cup {Some(u) : u \in Users}
SignedIn == {Some(u) : u \in Users}

\* A nullable column or an omitted field over the values S.
Optional(S) == {NULL} \cup {Some(x) : x \in S}

\* The modelled columns of the four tables, with their value sets.
PromptTemplateRows ==
  [id : 1..MaxTemplates, ownerId : Optional(Users), title : STRING,
   template : STRING, isActive : BOOLEAN]

GeneratedPromptRows ==
  [id : 1..MaxPrompts, templateId : Optional(1..MaxTemplates),
   userId : Optional(Users), promptText : STRING]

UserPromptFavoriteRows ==
  [id : 1..MaxFavorites, userId : SignedIn, promptId : 1..MaxPrompts]

PromptJobRows ==
  [id : 1..MaxJobs, templateId : Optional(1..MaxTemplates),
   userId : Optional(Users), status : {"pending", "completed", "failed"}]

\* Before any call has been answered.
NoResponse ==
  [op |-> "none", caller |-> NULL, input |-> NULL, code |-> "NONE",
   items |-> {}, prior |-> [code |-> "NONE", items |-> {}]]

NoPrior == NoResponse.prior

\* What a caller gets back: the code ("OK" or the error's), the rows of the
\* data, and in `prior` the outcome of the response before it when that one
\* answered the same call (operation, caller and input).
Response(op, c, input, code, items) ==
  [op |-> op, caller |-> c, input |-> input, code |-> code, items |-> items,
   prior |-> IF resp.op = op /\ resp.caller = c /\ resp.input = input
             THEN [code |-> resp.code, items |-> resp.items]
             ELSE NoPrior]

----------------------------------------------------------------------------
(* The storage layer as the actions use it.                                *)

Max(S) == CHOOSE x \in S : \A y \in S : y <= x

\* column.number({ primaryKey: true, autoIncrement: true }): the next rowid.
NextId(table) == IF table = {} THEN 1 ELSE Max({r.id : r \in table}) + 1

\* eq(column, value) is the SQL comparison `column = value`: it is true only
\* of two non-NULL equal operands, so `column = NULL` is true of no row.
eq(column, value) == column # NULL /\ value # NULL /\ column = value

\* JavaScript truthiness of an optional string.
Truthy(v) == v # NULL /\ v[1] # ""

----------------------------------------------------------------------------
(* Shared helpers of the handlers.                                         *)

requireUser(c) == c # NULL

\* Mutant: the ownership test is left out.
ensureTemplateExists(templateId, userId) ==
  IF {t \in PromptTemplates : eq(Some(t.id), templateId)} = {}
  THEN "NOT_FOUND" ELSE "OK"

\* Mutant: the two error codes are exchanged.
ensureTemplateAccessibleCodesSwapped(templateId, userId) ==
  LET found == {t \in PromptTemplates : eq(Some(t.id), templateId)}
  IN  IF found = {} THEN "FORBIDDEN"
      ELSE LET template == CHOOSE t \in found : TRUE
           IN  IF Truthy(template.ownerId) /\ template.ownerId # userId
               THEN "NOT_FOUND"
               ELSE "OK"

\* ensureTemplateAccessible: "OK" when it returns the row, else the code of
\* the ActionError it throws.
ensureTemplateAccessible(templateId, userId) ==
  LET found == {t \in PromptTemplates : eq(Some(t.id), templateId)}
  IN  IF found = {} THEN "NOT_FOUND"
      ELSE LET template == CHOOSE t \in found : TRUE
           IN  IF Truthy(template.ownerId) /\ template.ownerId # userId
               THEN "FORBIDDEN"
               ELSE "OK"

\* A handler that throws (or whose input fails validation) writes nothing.
Reject(op, c, input, code) ==
  /\ resp' = Response(op, c, input, code, {})
  /\ UNCHANGED <<tables, pending>>

\* The handler waits at an await for its next statement.
Suspend(op, c, input, pc) ==
  /\ BagCardinality(pending) < Cardinality(Sessions)
  /\ pending' = pending (+) SetToBag({[op |-> op, caller |-> c, input |-> input, pc |-> pc]})
  /\ UNCHANGED resp

Resume(r) == pending' = pending (-) SetToBag({r})

Suspended(op, pc) == {r \in BagToSet(pending) : r.op = op /\ r.pc = pc}

----------------------------------------------------------------------------
(* Template management.                                                    *)

\* createPromptTemplate's input schema.
createPromptTemplateInput(input) ==
  /\ Len(input.title) >= 1
  /\ Len(input.template) >= 1

createPromptTemplate(c, input) ==
  IF ~createPromptTemplateInput(input)
  THEN Reject("createPromptTemplate", c, input, "BAD_REQUEST")
  ELSE IF ~requireUser(c)
  THEN Reject("createPromptTemplate", c, input, "UNAUTHORIZED")
  ELSE /\ NextId(PromptTemplates) <= MaxTemplates
       /\ LET template == [id |-> NextId(PromptTemplates),
                           ownerId |-> c,
                           title |-> input.title,
                           template |-> input.template,
                           isActive |-> IF input.isActive # NULL
                                        THEN input.isActive[1] ELSE TRUE]
          IN  /\ PromptTemplates' = PromptTemplates \cup {template}
              /\ resp' = Response("createPromptTemplate", c, input, "OK", {template})
       /\ UNCHANGED <<GeneratedPrompts, UserPromptFavorites, PromptJobs, pending>>

\* updatePromptTemplate's input schema with its refine rule; `other` says
\* that description or tags is supplied.
updatePromptTemplateInput(input) ==
  /\ input.title # NULL => Len(input.title[1]) >= 1
  /\ \/ input.title # NULL
     \/ input.other
     \/ input.template # NULL
     \/ input.isActive # NULL

\* The handler up to and including the SELECT of ensureTemplateAccessible.
updatePromptTemplateCheck(c, input) ==
  IF ~updatePromptTemplateInput(input)
  THEN Reject("updatePromptTemplate", c, input, "BAD_REQUEST")
  ELSE IF ~requireUser(c)
  THEN Reject("updatePromptTemplate", c, input, "UNAUTHORIZED")
  ELSE LET access == ensureTemplateAccessible(Some(input.id), c)
       IN  IF access # "OK"
           THEN Reject("updatePromptTemplate", c, input, access)
           ELSE /\ Suspend("updatePromptTemplate", c, input, "update")
                /\ UNCHANGED tables

\* The .set({...}) of the UPDATE: only the supplied fields change.
updateSet(t, input) ==
  [t EXCEPT !.title = IF input.title # NULL THEN input.title[1] ELSE @,
            !.template = IF input.template # NULL THEN input.template[1] ELSE @,
            !.isActive = IF input.isActive # NULL THEN input.isActive[1] ELSE @]

\* The UPDATE ... WHERE id = input.id ... RETURNING and the return.
updatePromptTemplateWrite(r) ==
  /\ r \in Suspended("updatePromptTemplate", "update")
  /\ LET matched == {t \in PromptTemplates : eq(Some(t.id), Some(r.input.id))}
         updated == {updateSet(t, r.input) : t \in matched}
     IN  /\ PromptTemplates' = (PromptTemplates \ matched) \cup updated
         /\ resp' = Response("updatePromptTemplate", r.caller, r.input, "OK", updated)
  /\ Resume(r)
  /\ UNCHANGED <<GeneratedPrompts, UserPromptFavorites, PromptJobs>>

\* Mutant: the owner is not compared.
visibilityFilterAnyOwner(t, userId) == TRUE

\* or(eq(ownerId, user.id), eq(ownerId, null))
visibilityFilter(t, userId) ==
  eq(t.ownerId, userId) \/ eq(t.ownerId, NULL)

\* `input` is the optional includeInactive.
listPromptTemplates(c, input) ==
  IF ~requireUser(c)
  THEN Reject("listPromptTemplates", c, input, "UNAUTHORIZED")
  ELSE LET includeInactive == IF input # NULL THEN input[1] ELSE FALSE
           templates == {t \in PromptTemplates :
                           IF includeInactive
                           THEN visibilityFilter(t, c)
                           ELSE visibilityFilter(t, c) /\ eq(Some(t.isActive), Some(TRUE))}
       IN  /\ resp' = Response("listPromptTemplates", c, input, "OK", templates)
           /\ UNCHANGED <<tables, pending>>

----------------------------------------------------------------------------
(* Generated prompts.                                                      *)

createGeneratedPromptInput(input) == Len(input.promptText) >= 1

\* The INSERT ... RETURNING of createGeneratedPrompt and the return.
insertGeneratedPrompt(c, input) ==
  /\ NextId(GeneratedPrompts) <= MaxPrompts
  /\ LET prompt == [id |-> NextId(GeneratedPrompts),
                    templateId |-> input.templateId,
                    userId |-> c,
                    promptText |-> input.promptText]
     IN  /\ GeneratedPrompts' = GeneratedPrompts \cup {prompt}
         /\ resp' = Response("createGeneratedPrompt", c, input, "OK", {prompt})
  /\ UNCHANGED <<PromptTemplates, UserPromptFavorites, PromptJobs>>

\* The handler up to its first statement: with a templateId that is the
\* SELECT of ensureTemplateAccessible, without one the INSERT itself.
createGeneratedPromptCheck(c, input) ==
  IF ~createGeneratedPromptInput(input)
  THEN Reject("createGeneratedPrompt", c, input, "BAD_REQUEST")
  ELSE IF ~requireUser(c)
  THEN Reject("createGeneratedPrompt", c, input, "UNAUTHORIZED")
  ELSE IF input.templateId # NULL
  THEN LET access == ensureTemplateAccessible(input.templateId, c)
       IN  IF access # "OK"
           THEN Reject("createGeneratedPrompt", c, input, access)
           ELSE /\ NextId(GeneratedPrompts) <= MaxPrompts
                /\ Suspend("createGeneratedPrompt", c, input, "insert")
                /\ UNCHANGED tables
  ELSE /\ insertGeneratedPrompt(c, input)
       /\ UNCHANGED pending

createGeneratedPromptInsert(r) ==
  /\ r \in Suspended("createGeneratedPrompt", "insert")
  /\ insertGeneratedPrompt(r.caller, r.input)
  /\ Resume(r)

\* `input` is the optional templateId filter.
listGeneratedPrompts(c, input) ==
  IF ~requireUser(c)
  THEN Reject("listGeneratedPrompts", c, input, "UNAUTHORIZED")
  ELSE LET prompts == {p \in GeneratedPrompts :
                         /\ eq(p.userId, c)
                         /\ input # NULL => eq(p.templateId, input)}
       IN  /\ resp' = Response("listGeneratedPrompts", c, input, "OK", prompts)
           /\ UNCHANGED <<tables, pending>>

----------------------------------------------------------------------------
(* Favorites.                                                              *)

\* Mutant: the prompt is looked up by id alone.
promptsById(promptId, userId) ==
  {p \in GeneratedPrompts : eq(Some(p.id), Some(promptId))}

\* SELECT ... FROM GeneratedPrompts WHERE id = promptId AND userId = user.id
ownPrompts(promptId, userId) ==
  {p \in GeneratedPrompts : eq(Some(p.id), Some(promptId)) /\ eq(p.userId, userId)}

\* Mutant: the existing favorite is looked up by the favorite's own id.
existingFavoritesById(promptId, userId) ==
  {f \in UserPromptFavorites : eq(Some(f.id), Some(promptId)) /\ eq(f.userId, userId)}

\* SELECT ... FROM UserPromptFavorites WHERE promptId = promptId AND userId = user.id
existingFavorites(promptId, userId) ==
  {f \in UserPromptFavorites : eq(Some(f.promptId), Some(promptId)) /\ eq(f.userId, userId)}

\* The handler up to and including the SELECT of the prompt.
addFavoritePromptSelectPrompt(c, input) ==
  IF ~requireUser(c)
  THEN Reject("addFavoritePrompt", c, input, "UNAUTHORIZED")
  ELSE IF ownPrompts(input.promptId, c) = {}
  THEN Reject("addFavoritePrompt", c, input, "NOT_FOUND")
  ELSE /\ Suspend("addFavoritePrompt", c, input, "existing")
       /\ UNCHANGED tables

\* The SELECT of the existing favorite: the first row found is returned.
addFavoritePromptSelectExisting(r) ==
  /\ r \in Suspended("addFavoritePrompt", "existing")
  /\ LET found == existingFavorites(r.input.promptId, r.caller)
     IN  IF found # {}
         THEN /\ \E existingFavorite \in found :
                   resp' = Response("addFavoritePrompt", r.caller, r.input, "OK",
                                    {existingFavorite})
              /\ Resume(r)
         ELSE /\ pending' = (pending (-) SetToBag({r}))
                              (+) SetToBag({[r EXCEPT !.pc = "insert"]})
              /\ UNCHANGED resp
  /\ UNCHANGED tables

\* The INSERT ... RETURNING of the favorite and the return.
addFavoritePromptInsert(r) ==
  /\ r \in Suspended("addFavoritePrompt", "insert")
  /\ NextId(UserPromptFavorites) <= MaxFavorites
  /\ LET favorite == [id |-> NextId(UserPromptFavorites),
                      userId |-> r.caller,
                      promptId |-> r.input.promptId]
     IN  /\ UserPromptFavorites' = UserPromptFavorites \cup {favorite}
         /\ resp' = Response("addFavoritePrompt", r.caller, r.input, "OK", {favorite})
  /\ Resume(r)
  /\ UNCHANGED <<PromptTemplates, GeneratedPrompts, PromptJobs>>

\* Mutant: the DELETE matches the prompt alone.
deletedFavoritesOfAnyUser(promptId, userId) ==
  {f \in UserPromptFavorites : eq(Some(f.promptId), Some(promptId))}

\* DELETE FROM UserPromptFavorites WHERE promptId = promptId AND userId = user.id
deletedFavorites(promptId, userId) ==
  {f \in UserPromptFavorites : eq(Some(f.promptId), Some(promptId)) /\ eq(f.userId, userId)}

removeFavoritePrompt(c, input) ==
  IF ~requireUser(c)
  THEN Reject("removeFavoritePrompt", c, input, "UNAUTHORIZED")
  ELSE LET deleted == deletedFavorites(input.promptId, c)
           rowsAffected == Cardinality(deleted)
       IN  /\ UserPromptFavorites' = UserPromptFavorites \ deleted
           /\ resp' = Response("removeFavoritePrompt", c, input,
                               IF rowsAffected = 0 THEN "NOT_FOUND" ELSE "OK", {})
           /\ UNCHANGED <<PromptTemplates, GeneratedPrompts, PromptJobs, pending>>

listFavoritePrompts(c) ==
  IF ~requireUser(c)
  THEN Reject("listFavoritePrompts", c, NULL, "UNAUTHORIZED")
  ELSE LET favorites == {f \in UserPromptFavorites : eq(f.userId, c)}
       IN  /\ resp' = Response("listFavoritePrompts", c, NULL, "OK", favorites)
           /\ UNCHANGED <<tables, pending>>

----------------------------------------------------------------------------
(* Job history.                                                            *)

\* The INSERT ... RETURNING of createPromptJob and the return.
insertPromptJob(c, input) ==
  /\ NextId(PromptJobs) <= MaxJobs
  /\ LET job == [id |-> NextId(PromptJobs),
                 templateId |-> input.templateId,
                 userId |-> c,
                 status |-> IF input.status # NULL
                            THEN input.status[1] ELSE "completed"]
     IN  /\ PromptJobs' = PromptJobs \cup {job}
         /\ resp' = Response("createPromptJob", c, input, "OK", {job})
  /\ UNCHANGED <<PromptTemplates, GeneratedPrompts, UserPromptFavorites>>

createPromptJobInput(input) ==
  input.status # NULL => input.status[1] \in {"pending", "completed", "failed"}

\* Mutant: the job is inserted without the accessibility check.
createPromptJobUnchecked(c, input) ==
  IF ~createPromptJobInput(input)
  THEN Reject("createPromptJob", c, input, "BAD_REQUEST")
  ELSE IF ~requireUser(c)
  THEN Reject("createPromptJob", c, input, "UNAUTHORIZED")
  ELSE /\ insertPromptJob(c, input)
       /\ UNCHANGED pending

\* The handler up to its first statement: with a templateId that is the
\* SELECT of ensureTemplateAccessible, without one the INSERT itself.
createPromptJobCheck(c, input) ==
  IF ~createPromptJobInput(input)
  THEN Reject("createPromptJob", c, input, "BAD_REQUEST")
  ELSE IF ~requireUser(c)
  THEN Reject("createPromptJob", c, input, "UNAUTHORIZED")
  ELSE IF input.templateId # NULL
  THEN LET access == ensureTemplateAccessible(input.templateId, c)
       IN  IF access # "OK"
           THEN Reject("createPromptJob", c, input, access)
           ELSE /\ NextId(PromptJobs) <= MaxJobs
                /\ Suspend("createPromptJob", c, input, "insert")
                /\ UNCHANGED tables
  ELSE /\ insertPromptJob(c, input)
       /\ UNCHANGED pending

createPromptJobInsert(r) ==
  /\ r \in Suspended("createPromptJob", "insert")
  /\ insertPromptJob(r.caller, r.input)
  /\ Resume(r)

listPromptJobs(c) ==
  IF ~requireUser(c)
  THEN Reject("listPromptJobs", c, NULL, "UNAUTHORIZED")
  ELSE LET jobs == {j \in PromptJobs : eq(j.userId, c)}
       IN  /\ resp' = Response("listPromptJobs", c, NULL, "OK", jobs)
           /\ UNCHANGED <<tables, pending>>

----------------------------------------------------------------------------
(* Initial states and the requests callers send.                           *)

\* A shared (ownerless) system template, as a seed stores it.
SeedTemplate ==
  [id |-> 1, ownerId |-> NULL, title |-> "t", template |-> "t", isActive |-> TRUE]

Init ==
  /\ PromptTemplates \in {{}, {SeedTemplate}}
  /\ GeneratedPrompts = {}
  /\ UserPromptFavorites = {}
  /\ PromptJobs = {}
  /\ pending = EmptyBag
  /\ resp = NoResponse

\* The ids a request names: every id the table can hold and one beyond.
TemplateIds == 1..(MaxTemplates + 1)
PromptIds == 1..(MaxPrompts + 1)

Call(c, input) == [caller |-> c, input |-> input]

\* Every signed-in user sends every input; the anonymous caller sends one.
Calls(inputs) ==
  {Call(c, input) : c \in SignedIn, input \in inputs}
    \cup {Call(NULL, CHOOSE input \in inputs : TRUE)}

TemplateInput(title, template, isActive) ==
  [title |-> title, template |-> template, isActive |-> isActive]

CreateTemplateInputs ==
  { TemplateInput("t", "t", NULL), TemplateInput("t", "t", Some(FALSE)),
    TemplateInput("", "t", NULL),  TemplateInput("t", "", NULL) }

UpdateInput(id, title, template, isActive, other) ==
  [id |-> id, title |-> title, template |-> template, isActive |-> isActive,
   other |-> other]

UpdateTemplateInputs ==
  { UpdateInput(i, NULL, Some(""), NULL, FALSE) : i \in TemplateIds }
    \cup { UpdateInput(i, NULL, NULL, Some(FALSE), FALSE) : i \in TemplateIds }
    \cup { UpdateInput(1, NULL, NULL, NULL, FALSE),
           UpdateInput(1, Some(""), NULL, NULL, FALSE) }

\* Template management alone.
TemplateNext ==
  \/ \E call \in Calls(CreateTemplateInputs) :
       createPromptTemplate(call.caller, call.input)
  \/ \E call \in Calls(UpdateTemplateInputs) :
       updatePromptTemplateCheck(call.caller, call.input)
  \/ \E r \in BagToSet(pending) : updatePromptTemplateWrite(r)
  \/ \E call \in Calls({NULL, Some(TRUE)}) :
       listPromptTemplates(call.caller, call.input)

SpecTemplates == Init /\ [][TemplateNext]_vars

PromptInput(templateId) == [templateId |-> templateId, promptText |-> "p"]
FavoriteInput(promptId) == [promptId |-> promptId]

\* Favorites over freestanding prompts, requests interleaving; no request
\* that inserts a favorite is sent once the favorites stored and the requests
\* in flight together reach MaxFavorites.
FavoritesNext ==
  \/ \E call \in Calls({PromptInput(NULL)}) :
       createGeneratedPromptCheck(call.caller, call.input)
  \/ /\ Cardinality(UserPromptFavorites) + BagCardinality(pending) < MaxFavorites
     /\ \E call \in Calls({FavoriteInput(i) : i \in PromptIds}) :
          addFavoritePromptSelectPrompt(call.caller, call.input)
  \/ \E r \in BagToSet(pending) : addFavoritePromptSelectExisting(r)
  \/ \E r \in BagToSet(pending) : addFavoritePromptInsert(r)
  \/ \E call \in Calls({FavoriteInput(i) : i \in PromptIds}) :
       removeFavoritePrompt(call.caller, call.input)
  \/ \E c \in Callers : listFavoritePrompts(c)

SpecFavorites == Init /\ [][FavoritesNext]_vars

JobInput(templateId, status) == [templateId |-> templateId, status |-> status]

\* Rows in the whole database.
DbRows ==
  Cardinality(PromptTemplates) + Cardinality(GeneratedPrompts)
    + Cardinality(UserPromptFavorites) + Cardinality(PromptJobs)

\* Requests that name a template: updates, prompts and jobs, racing; no
\* request that inserts is sent once the rows stored and the requests in
\* flight together reach MaxDbRows.
AccessNext ==
  \/ /\ DbRows + BagCardinality(pending) < MaxDbRows
     /\ \E call \in Calls({TemplateInput("t", "t", NULL)}) :
          createPromptTemplate(call.caller, call.input)
  \/ \E call \in Calls({UpdateInput(i, NULL, NULL, Some(FALSE), FALSE) : i \in 1..MaxTemplates}) :
       updatePromptTemplateCheck(call.caller, call.input)
  \/ \E r \in BagToSet(pending) : updatePromptTemplateWrite(r)
  \/ /\ DbRows + BagCardinality(pending) < MaxDbRows
     /\ \E call \in Calls({PromptInput(Some(i)) : i \in 1..MaxTemplates}) :
          createGeneratedPromptCheck(call.caller, call.input)
  \/ \E r \in BagToSet(pending) : createGeneratedPromptInsert(r)
  \/ /\ DbRows + BagCardinality(pending) < MaxDbRows
     /\ \E call \in Calls({JobInput(Some(i), NULL) : i \in 1..MaxTemplates}) :
          createPromptJobCheck(call.caller, call.input)
  \/ \E r \in BagToSet(pending) : createPromptJobInsert(r)

SpecAccess == Init /\ [][AccessNext]_vars

\* Non-concurrent calls: a request is sent only when none is in flight.
SequentialFavoritesNext ==
  \/ /\ pending = EmptyBag
     /\ \E call \in Calls({PromptInput(NULL)}) :
          createGeneratedPromptCheck(call.caller, call.input)
  \/ /\ pending = EmptyBag
     /\ \E call \in Calls({FavoriteInput(i) : i \in PromptIds}) :
          addFavoritePromptSelectPrompt(call.caller, call.input)
  \/ \E r \in BagToSet(pending) : addFavoritePromptSelectExisting(r)
  \/ \E r \in BagToSet(pending) : addFavoritePromptInsert(r)
  \/ /\ pending = EmptyBag
     /\ \E call \in Calls({FavoriteInput(i) : i \in PromptIds}) :
          removeFavoritePrompt(call.caller, call.input)
  \/ /\ pending = EmptyBag
     /\ \E c \in Callers : listFavoritePrompts(c)

SpecSequentialFavorites == Init /\ [][SequentialFavoritesNext]_vars

\* Every operation of the action layer, one request at a time, and no request
\* that inserts once the database holds MaxDbRows rows.
Next ==
  \/ /\ pending = EmptyBag /\ DbRows < MaxDbRows
     /\ \E call \in Calls({TemplateInput("t", "t", NULL)}) :
          createPromptTemplate(call.caller, call.input)
  \/ /\ pending = EmptyBag
     /\ \E call \in Calls({UpdateInput(i, NULL, NULL, Some(FALSE), FALSE) : i \in TemplateIds}) :
          updatePromptTemplateCheck(call.caller, call.input)
  \/ \E r \in BagToSet(pending) : updatePromptTemplateWrite(r)
  \/ /\ pending = EmptyBag
     /\ \E call \in Calls({NULL, Some(TRUE)}) :
          listPromptTemplates(call.caller, call.input)
  \/ /\ pending = EmptyBag /\ DbRows < MaxDbRows
     /\ \E call \in Calls({PromptInput(NULL), PromptInput(Some(1))}) :
          createGeneratedPromptCheck(call.caller, call.input)
  \/ \E r \in BagToSet(pending) : createGeneratedPromptInsert(r)
  \/ /\ pending = EmptyBag
     /\ \E call \in Calls({NULL, Some(1)}) :
          listGeneratedPrompts(call.caller, call.input)
  \/ /\ pending = EmptyBag /\ DbRows < MaxDbRows
     /\ \E call \in Calls({FavoriteInput(i) : i \in PromptIds}) :
          addFavoritePromptSelectPrompt(call.caller, call.input)
  \/ \E r \in BagToSet(pending) : addFavoritePromptSelectExisting(r)
  \/ \E r \in BagToSet(pending) : addFavoritePromptInsert(r)
  \/ /\ pending = EmptyBag
     /\ \E call \in Calls({FavoriteInput(i) : i \in PromptIds}) :
          removeFavoritePrompt(call.caller, call.input)
  \/ /\ pending = EmptyBag
     /\ \E c \in Callers : listFavoritePrompts(c)
  \/ /\ pending = EmptyBag /\ DbRows < MaxDbRows
     /\ \E call \in Calls({JobInput(NULL, NULL), JobInput(Some(1), Some("pending"))}) :
          createPromptJobCheck(call.caller, call.input)
  \/ \E r \in BagToSet(pending) : createPromptJobInsert(r)
  \/ /\ pending = EmptyBag
     /\ \E c \in Callers : listPromptJobs(c)

Spec == Init /\ [][Next]_vars

\* Every stored row has the columns and value sets of its table.
TypeOK ==
  /\ \A row \in PromptTemplates : row \in PromptTemplateRows
  /\ \A row \in GeneratedPrompts : row \in GeneratedPromptRows
  /\ \A row \in UserPromptFavorites : row \in UserPromptFavoriteRows
  /\ \A row \in PromptJobs : row \in PromptJobRows

----------------------------------------------------------------------------
(* The claims.                                                             *)

Owner(c, t) == t.ownerId = c
Ownerless(t) == t.ownerId = NULL
TemplateOf(id) == {t \in PromptTemplates : t.id = id}
FavoritesFor(c, promptId) ==
  {f \in UserPromptFavorites : f.userId = c /\ f.promptId = promptId}
Owns(c, promptId) ==
  \E p \in GeneratedPrompts : p.id = promptId /\ p.userId = c

\* A step of the handler called as (c, input) returns to that call or to none.
StepOf(c, input) ==
  resp' = resp \/ (resp'.caller = c /\ resp'.input = input)

\* C1: every row a list operation returns to a signed-in caller A is A's own
\* (userId = A) for prompts, favorites and jobs, with or without a templateId
\* filter; every template row returned to A is owned by A or ownerless.
C1_TenantIsolation ==
  resp.code = "OK" =>
    /\ resp.op \in {"listGeneratedPrompts", "listFavoritePrompts", "listPromptJobs"}
         => \A row \in resp.items : row.userId = resp.caller
    /\ resp.op = "listPromptTemplates"
         => \A t \in resp.items : Owner(resp.caller, t) \/ Ownerless(t)

\* A filtered prompt list came back non-empty while another user's prompt
\* with the same templateId is stored.
C1_Witness ==
  /\ resp.op = "listGeneratedPrompts" /\ resp.code = "OK"
  /\ resp.input # NULL /\ resp.items # {}
  /\ \E p \in GeneratedPrompts : p.userId # resp.caller /\ p.templateId = resp.input

\* C2: listPromptTemplates returns to caller A exactly the rows A owns together
\* with all ownerless rows, inactive rows removed unless includeInactive is true.
C2_ListExactlyVisible ==
  resp.op = "listPromptTemplates" /\ resp.code = "OK" =>
    resp.items = {t \in PromptTemplates :
                    /\ Owner(resp.caller, t) \/ Ownerless(t)
                    /\ resp.input = Some(TRUE) \/ t.isActive}

\* C3: an update of a template whose owner is another user is answered
\* FORBIDDEN, an update of an id that matches no row NOT_FOUND, and in both
\* cases no table changes and no write is left pending.
C3_UpdateRejectedBeforeWrite ==
  [][\A c \in SignedIn, i \in TemplateIds :
       LET input == UpdateInput(i, NULL, NULL, Some(FALSE), FALSE)
       IN  StepOf(c, input) /\ updatePromptTemplateCheck(c, input) =>
             /\ TemplateOf(i) = {} =>
                  /\ resp'.op = "updatePromptTemplate" /\ resp'.code = "NOT_FOUND"
                  /\ UNCHANGED <<tables, pending>>
             /\ (\E t \in TemplateOf(i) : ~Ownerless(t) /\ ~Owner(c, t)) =>
                  /\ resp'.op = "updatePromptTemplate" /\ resp'.code = "FORBIDDEN"
                  /\ UNCHANGED <<tables, pending>>]_vars

\* An update of another user's template has been answered FORBIDDEN.
C3_Witness ==
  /\ resp.op = "updatePromptTemplate" /\ resp.code = "FORBIDDEN"
  /\ \E t \in TemplateOf(resp.input.id) : ~Ownerless(t) /\ ~Owner(resp.caller, t)

\* C4: createGeneratedPrompt and createPromptJob with the templateId of a
\* template another user owns are answered FORBIDDEN and leave every table as
\* it was, with no insert pending.
C4_CreateRejectedBeforeInsert ==
  [][\A c \in SignedIn, i \in TemplateIds :
       (\E t \in TemplateOf(i) : ~Ownerless(t) /\ ~Owner(c, t)) =>
         /\ LET input == PromptInput(Some(i))
            IN  StepOf(c, input) /\ createGeneratedPromptCheck(c, input) =>
                  /\ resp'.op = "createGeneratedPrompt" /\ resp'.code = "FORBIDDEN"
                  /\ UNCHANGED <<tables, pending>>
         /\ \A status \in {NULL, Some("pending")} :
              LET input == JobInput(Some(i), status)
              IN  StepOf(c, input) /\ createPromptJobCheck(c, input) =>
                    /\ resp'.op = "createPromptJob" /\ resp'.code = "FORBIDDEN"
                    /\ UNCHANGED <<tables, pending>>]_vars

\* A job for another user's template has been answered FORBIDDEN and no job
\* is stored.
C4_Witness ==
  /\ resp.op = "createPromptJob" /\ resp.code = "FORBIDDEN"
  /\ \E t \in TemplateOf(resp.input.templateId[1]) :
       ~Ownerless(t) /\ ~Owner(resp.caller, t)
  /\ PromptJobs = {}

\* C5: with non-concurrent calls, addFavoritePrompt succeeds on a prompt the
\* caller owns, and a call that repeats the call answered just before returns
\* the same favorite row, the only row stored for (caller, promptId).
C5_AddFavoriteIdempotent ==
  resp.op = "addFavoritePrompt" /\ resp.caller # NULL =>
    /\ Owns(resp.caller, resp.input.promptId) => resp.code = "OK"
    /\ resp.prior.code = "OK" =>
         /\ resp.code = "OK"
         /\ resp.items = resp.prior.items
         /\ Cardinality(resp.items) = 1
         /\ FavoritesFor(resp.caller, resp.input.promptId) = resp.items

\* The same addFavoritePrompt call has been answered twice in a row.
C5_Witness ==
  /\ resp.op = "addFavoritePrompt" /\ resp.code = "OK"
  /\ resp.prior.code = "OK"

\* C6: at most one favorite row per (userId, promptId), also when
\* addFavoritePrompt requests interleave between check and insert.
C6_FavoriteUnique ==
  \A f, g \in UserPromptFavorites :
    f.userId = g.userId /\ f.promptId = g.promptId => f = g

\* C7 (state): a removeFavoritePrompt that repeats a successful one is answered
\* NOT_FOUND, and after a successful one no (caller, promptId) row is stored.
C7_SecondRemoveNotFound ==
  resp.op = "removeFavoritePrompt" =>
    /\ resp.prior.code = "OK" => resp.code = "NOT_FOUND"
    /\ resp.code = "OK" => FavoritesFor(resp.caller, resp.input.promptId) = {}

\* C7 (step): removeFavoritePrompt deletes exactly the caller's rows for the
\* prompt and succeeds when there are some, and otherwise is answered
\* NOT_FOUND and leaves the table unchanged.
C7_RemoveStep ==
  \A c \in SignedIn, i \in PromptIds :
    StepOf(c, FavoriteInput(i)) /\ removeFavoritePrompt(c, FavoriteInput(i)) =>
      /\ UserPromptFavorites' = UserPromptFavorites \ FavoritesFor(c, i)
      /\ resp'.code = IF FavoritesFor(c, i) = {} THEN "NOT_FOUND" ELSE "OK"

\* C7: removeFavoritePrompt is not idempotent: the first call succeeds and
\* removes the caller's favorite, the second is answered NOT_FOUND and changes
\* nothing; other users' and other prompts' favorites are untouched by both.
C7_RemoveNotIdempotent ==
  [](C7_SecondRemoveNotFound) /\ [][C7_RemoveStep]_vars

\* A second removal in a row has been answered NOT_FOUND while another
\* favorite is stored.
C7_Witness ==
  /\ resp.op = "removeFavoritePrompt" /\ resp.code = "NOT_FOUND"
  /\ resp.prior.code = "OK"
  /\ UserPromptFavorites # {}

\* C8 (state): every favorite references a stored prompt of the same user.
C8_FavoritesOwnPrompts ==
  \A f \in UserPromptFavorites : Owns(f.userId, f.promptId)

\* C8 (step): addFavoritePrompt on a prompt that does not exist or belongs to
\* another user is answered NOT_FOUND and inserts nothing.
C8_AddStep ==
  \A c \in SignedIn, i \in PromptIds :
    LET input == FavoriteInput(i)
    IN  ~Owns(c, i) /\ StepOf(c, input) /\ addFavoritePromptSelectPrompt(c, input) =>
          /\ resp'.op = "addFavoritePrompt" /\ resp'.code = "NOT_FOUND"
          /\ UNCHANGED <<tables, pending>>

\* C8: favorites are never cross-user.
C8_FavoritesNeverCrossUser ==
  [](C8_FavoritesOwnPrompts) /\ [][C8_AddStep]_vars

\* A favorite on another user's prompt has been refused while that user's own
\* favorite on it is stored.
C8_Witness ==
  /\ resp.op = "addFavoritePrompt" /\ resp.code = "NOT_FOUND"
  /\ \E p \in GeneratedPrompts : p.id = resp.input.promptId /\ p.userId # resp.caller
  /\ \E f \in UserPromptFavorites : f.promptId = resp.input.promptId

Accessible(row) ==
  row.templateId # NULL =>
    \E t \in TemplateOf(row.templateId[1]) : Ownerless(t) \/ Owner(row.userId, t)

\* C9: every prompt and every job with a templateId references a stored
\* template that is ownerless or owned by the row's user, under any
\* interleaving of the requests.
C9_TemplateReferencesAccessible ==
  /\ \A p \in GeneratedPrompts : Accessible(p)
  /\ \A j \in PromptJobs : Accessible(j)

\* An update of a template has just been written while a create that names
\* the template waits between its accessibility check and its insert, and a
\* prompt that references a template is stored.
C9_Witness ==
  /\ resp.op = "updatePromptTemplate" /\ resp.code = "OK"
  /\ \E r \in BagToSet(pending) :
       /\ r.op \in {"createGeneratedPrompt", "createPromptJob"}
       /\ r.pc = "insert"
       /\ r.input.templateId = Some(resp.input.id)
  /\ \E p \in GeneratedPrompts : p.templateId # NULL

\* C10: every stored template has a non-empty title and a non-empty body.
C10_TemplateContentNonEmpty ==
  \A t \in PromptTemplates : Len(t.title) >= 1 /\ Len(t.template) >= 1

====
